---- MODULE Spec2Model ----
(***************************************************************************)
(* Model of the solar project cash-flow module cfModel.py: the price       *)
(* table loaded at import, the scalar formulas, the cash-flow schedule,    *)
(* the payback scan and the entry point run_solar_model.                   *)
(*                                                                         *)
(* Numbers.  A Python float is modelled as a decimal fixed-point number:   *)
(* the integer n stands for n / SCALE (four decimals).  A product is       *)
(* rounded to the grid (half to even) the way a float product is rounded   *)
(* to the nearest representable value; sums and differences of grid values *)
(* are exact.  None / NaN is the empty sequence <<>> and a present value x *)
(* is <<x>>, so that "absent" is never mistaken for zero.                  *)
(*                                                                         *)
(* Exceptions.  A function returns [ok |-> TRUE, val |-> v, err |-> ""] or *)
(* raises: [ok |-> FALSE, val |-> <<>>, err |-> message].                  *)
(***************************************************************************)
EXTENDS Integers, Sequences, FiniteSets, TLC

\* ------------------------------------------------------------ floats

SCALE == 100 * 100

\* The float with the integer value n (1000.0, 15.0, ...).
F(n) == n * SCALE

Abs(x) == IF x < 0 THEN -x ELSE x

Sign(x) == IF x < 0 THEN -1 ELSE 1

\* n / d rounded to the nearest integer, ties to even (n >= 0, d > 0).
RoundDiv(n, d) ==
    LET q == n \div d
        r == n % d
    IN  IF 2 * r > d \/ (2 * r = d /\ q % 2 = 1) THEN q + 1 ELSE q

\* a * b / SCALE rounded half to even, for a, b >= 0, without computing a * b
\* (which need not fit the model checker's integers).
MulNat(a, b) ==
    LET qa == a \div SCALE
        ra == a % SCALE
        qb == b \div SCALE
        rb == b % SCALE
    IN  qa * qb * SCALE + qa * rb + ra * qb + RoundDiv(ra * rb, SCALE)

\* The float product a * b.
FMul(a, b) == Sign(a) * Sign(b) * MulNat(Abs(a), Abs(b))

\* The float power b ** n for an int n >= 0.
RECURSIVE FPow(_, _)
FPow(b, n) == IF n = 0 THEN F(1) ELSE FMul(FPow(b, n - 1), b)

RECURSIVE Pow10(_)
Pow10(n) == IF n = 0 THEN 1 ELSE 10 * Pow10(n - 1)

\* Series.round(decimals) of one value: to the nearest multiple of
\* 10^-decimals, ties to even; -0.004 rounds to (minus) zero.
Round(x, decimals) ==
    LET unit == SCALE \div Pow10(decimals)
    IN  Sign(x) * RoundDiv(Abs(x), unit) * unit

None == <<>>

Some(x) == <<x>>

\* Series.round of an optional value: NaN stays NaN.
RoundOpt(v, decimals) == IF v = None THEN None ELSE Some(Round(v[1], decimals))

Return(v) == [ok |-> TRUE, val |-> v, err |-> ""]

Raise(e) == [ok |-> FALSE, val |-> <<>>, err |-> e]

\* ------------------------------------------------------ configuration

PROJECT_YEARS == 25

CAPEX_PER_WATT == 25000

ITC_RATE == 3000

GEN_KWH_PER_KW_YEAR == 14000000

PRICE_ESCALATION == 250

OM_PER_KW_YEAR == 150000

\* ---------------------------------------------------------------- data

\* str.lower() on the strings of the model.
Lower(s) ==
    CASE s = "California" -> "california"
      [] s = "CALIFORNIA" -> "california"
      [] s = "Texas" -> "texas"
      [] s = "TEXAS" -> "texas"
      [] s = "Ohio" -> "ohio"
      [] s = "Nowhere" -> "nowhere"
      [] s = "Atlantis" -> "atlantis"
      [] OTHER -> s

\* pd.read_csv("energy_prices.csv"): the file's columns and rows as they are.
read_csv(file) == [columns |-> file.columns, rows |-> file.rows]

\* df["state"] = df["state"].astype(str).str.lower(); a KeyError when the
\* file has no "state" column.
lower_state_column(df) ==
    IF "state" \notin df.columns
    THEN Raise("KeyError: 'state'")
    ELSE Return([columns |-> df.columns,
                 rows |-> [i \in 1..Len(df.rows) |->
                             [state |-> Lower(df.rows[i].state),
                              cost_per_kWh |-> df.rows[i].cost_per_kWh]]])

\* The import of the module: _ELECTRICITY_PRICE_DF, or the exception raised.
load_price_table(file) == lower_state_column(read_csv(file))

\* df.loc[df["state"] == state_clean, "cost_per_kWh"]: the prices of the
\* matching rows, in row order.
RECURSIVE loc_cost(_, _)
loc_cost(rows, state_clean) ==
    IF rows = <<>> THEN <<>>
    ELSE IF Head(rows).state = state_clean
         THEN <<Head(rows).cost_per_kWh>> \o loc_cost(Tail(rows), state_clean)
         ELSE loc_cost(Tail(rows), state_clean)

\* A lookup that goes straight to the columns, without the schema check.
get_electricity_price_unchecked(df, state) ==
    LET match == loc_cost(df.rows, Lower(state))
    IN  IF "cost_per_kWh" \notin df.columns THEN Raise("KeyError: 'cost_per_kWh'")
        ELSE IF match = <<>> THEN Raise("State not found in price table")
        ELSE Return(match[1])

get_electricity_price(df, state) ==
    LET required_cols == {"state", "cost_per_kWh"}
        state_clean == Lower(state)
        match == loc_cost(df.rows, state_clean)
    IN  IF ~(required_cols \subseteq df.columns)
        THEN Raise("CSV must contain 'state' and 'cost_per_kWh' columns")
        ELSE IF match = <<>> THEN Raise("State not found in price table")
        ELSE Return(match[1])

\* ---------------------------------------------------- core calculations

calc_upfront_capex(system_size_kw, capex_per_watt) ==
    IF capex_per_watt <= 0 THEN Raise("capex_per_watt must be > 0.")
    ELSE LET watts == FMul(system_size_kw, F(1000))
         IN  Return(FMul(capex_per_watt, watts))

calc_itc_value(capex, itc_rate) ==
    IF capex < 0 THEN Raise("capex must be >= 0.")
    ELSE IF ~(0 <= itc_rate /\ itc_rate <= F(1))
    THEN Raise("itc_rate must be between 0 and 1.")
    ELSE Return(FMul(capex, itc_rate))

calc_annual_generation_kwh(system_size_kw, gen_kwh_per_kw_year) ==
    IF gen_kwh_per_kw_year <= 0 THEN Raise("gen_kwh_per_kw_year must be > 0.")
    ELSE Return(FMul(system_size_kw, gen_kwh_per_kw_year))

\* The price with the exponent taken as the year itself.
electricity_price_for_year_exp_year(base_price, year, escalation) ==
    IF base_price <= 0 THEN Raise("base_price must be > 0.")
    ELSE IF year < 1
    THEN Raise("year must be >= 1 for price escalation calculation.")
    ELSE IF escalation < 0 THEN Raise("escalation must be >= 0.")
    ELSE Return(FMul(base_price, FPow(F(1) + escalation, year)))

electricity_price_for_year(base_price, year, escalation) ==
    IF base_price <= 0 THEN Raise("base_price must be > 0.")
    ELSE IF year < 1
    THEN Raise("year must be >= 1 for price escalation calculation.")
    ELSE IF escalation < 0 THEN Raise("escalation must be >= 0.")
    ELSE Return(FMul(base_price, FPow(F(1) + escalation, year - 1)))

annual_om_cost(system_size_kw, om_per_kw_year) ==
    IF om_per_kw_year < 0 THEN Raise("om_per_kw_year must be >= 0.")
    ELSE Return(FMul(system_size_kw, om_per_kw_year))

\* ------------------------------------------- cash flow schedule, metrics

\* The loop's accumulators: rows, cashflows and cumulative, or the exception
\* that ended the loop.
Acc(rows, cashflows, cumulative) ==
    [ok |-> TRUE, err |-> "", rows |-> rows, cashflows |-> cashflows,
     cumulative |-> cumulative]

AccRaise(e) ==
    [ok |-> FALSE, err |-> e, rows |-> <<>>, cashflows |-> <<>>, cumulative |-> 0]

\* The year 0 row and the accumulators after it.
year_zero(capex, itc) ==
    LET cf0 == (-capex) + itc
        cumulative == 0 + cf0
    IN  Acc(<<[year |-> 0, price_per_kwh |-> None, generation_kwh |-> 0,
               om_cost |-> 0, net_cashflow |-> cf0,
               cumulative_cashflow |-> cumulative]>>,
            <<cf0>>, cumulative)

\* A loop body that records the year's net flow as the cumulative value.
year_step_no_sum(acc, yr, base_price_per_kwh, escalation, annual_gen, om) ==
    LET p == electricity_price_for_year(base_price_per_kwh, yr, escalation)
        net_cf == FMul(annual_gen, p.val) - om
    IN  IF ~acc.ok THEN acc
        ELSE IF ~p.ok THEN AccRaise(p.err)
        ELSE Acc(Append(acc.rows,
                        [year |-> yr, price_per_kwh |-> Some(p.val),
                         generation_kwh |-> annual_gen, om_cost |-> om,
                         net_cashflow |-> net_cf, cumulative_cashflow |-> net_cf]),
                 Append(acc.cashflows, net_cf), net_cf)

\* A loop body that subtracts the savings from the O&M cost.
year_step_om_minus_savings(acc, yr, base_price_per_kwh, escalation, annual_gen, om) ==
    LET p == electricity_price_for_year(base_price_per_kwh, yr, escalation)
        net_cf == om - FMul(annual_gen, p.val)
        cumulative == acc.cumulative + net_cf
    IN  IF ~acc.ok THEN acc
        ELSE IF ~p.ok THEN AccRaise(p.err)
        ELSE Acc(Append(acc.rows,
                        [year |-> yr, price_per_kwh |-> Some(p.val),
                         generation_kwh |-> annual_gen, om_cost |-> om,
                         net_cashflow |-> net_cf, cumulative_cashflow |-> cumulative]),
                 Append(acc.cashflows, net_cf), cumulative)

\* The body of the loop over the years 1.. for one year.
year_step(acc, yr, base_price_per_kwh, escalation, annual_gen, om) ==
    LET p == electricity_price_for_year(base_price_per_kwh, yr, escalation)
        gross_savings == FMul(annual_gen, p.val)
        net_cf == gross_savings - om
        cumulative == acc.cumulative + net_cf
    IN  IF ~acc.ok THEN acc
        ELSE IF ~p.ok THEN AccRaise(p.err)
        ELSE Acc(Append(acc.rows,
                        [year |-> yr, price_per_kwh |-> Some(p.val),
                         generation_kwh |-> annual_gen, om_cost |-> om,
                         net_cashflow |-> net_cf, cumulative_cashflow |-> cumulative]),
                 Append(acc.cashflows, net_cf), cumulative)

\* A range that stops one year early.
year_range_short(years) == [i \in 1..(years - 1) |-> i]

\* range(1, years + 1)
year_range(years) == [i \in 1..years |-> i]

\* for yr in range(1, years + 1): ...
RECURSIVE for_years(_, _, _, _, _, _)
for_years(acc, yrs, base_price_per_kwh, escalation, annual_gen, om) ==
    IF yrs = <<>> THEN acc
    ELSE for_years(year_step(acc, Head(yrs), base_price_per_kwh, escalation,
                             annual_gen, om),
                   Tail(yrs), base_price_per_kwh, escalation, annual_gen, om)

build_cashflow_schedule(system_size_kw, base_price_per_kwh, years, capex_per_watt, itc_rate, gen_kwh_per_kw_year, escalation, om_per_kw_year) ==
    LET capex == calc_upfront_capex(system_size_kw, capex_per_watt)
        itc == calc_itc_value(capex.val, itc_rate)
        annual_gen == calc_annual_generation_kwh(system_size_kw, gen_kwh_per_kw_year)
        om == annual_om_cost(system_size_kw, om_per_kw_year)
        acc == for_years(year_zero(capex.val, itc.val), year_range(years),
                         base_price_per_kwh, escalation, annual_gen.val, om.val)
    IN  IF years <= 0 THEN Raise("years must be > 0.")
        ELSE IF base_price_per_kwh <= 0 THEN Raise("base_price_per_kwh must be > 0.")
        ELSE IF ~capex.ok THEN Raise(capex.err)
        ELSE IF ~itc.ok THEN Raise(itc.err)
        ELSE IF ~annual_gen.ok THEN Raise(annual_gen.err)
        ELSE IF ~om.ok THEN Raise(om.err)
        ELSE IF ~acc.ok THEN Raise(acc.err)
        ELSE Return([table |-> acc.rows, cashflows |-> acc.cashflows])

\* float(npf.irr(cashflows)), None when it is NaN: the library's value, kept as
\* an uninterpreted function of the series it is given.
npf_irr(cashflows) == Some([irr_of |-> cashflows])

calc_project_irr(cashflows) ==
    IF Len(cashflows) < 2 THEN None ELSE npf_irr(cashflows)

\* for i in range(1, len(cum)): if cum[i] >= 0: return int(yrs[i]); return None
\* (the model's sequences start at 1: cum[i + 1] is the source's cum[i]).
RECURSIVE scan_from(_, _, _)
scan_from(cum, yrs, i) ==
    IF i >= Len(cum) THEN None
    ELSE IF cum[i + 1] >= 0 THEN Some(yrs[i + 1])
    ELSE scan_from(cum, yrs, i + 1)

\* A scan that does not look at year 0.
calc_payback_period_years_skip_first(cashflow_table) ==
    LET cum == [i \in 1..Len(cashflow_table) |-> cashflow_table[i].cumulative_cashflow]
        yrs == [i \in 1..Len(cashflow_table) |-> cashflow_table[i].year]
    IN  scan_from(cum, yrs, 1)

\* A scan that reports the year before the crossing.
calc_payback_period_years_year_before(cashflow_table) ==
    LET cum == [i \in 1..Len(cashflow_table) |-> cashflow_table[i].cumulative_cashflow]
        yrs == [i \in 1..Len(cashflow_table) |-> cashflow_table[i].year]
        hit == scan_from(cum, yrs, 1)
    IN  IF cum[1] >= 0 THEN Some(yrs[1])
        ELSE IF hit = None THEN None ELSE Some(hit[1] - 1)

calc_payback_period_years(cashflow_table) ==
    LET cum == [i \in 1..Len(cashflow_table) |-> cashflow_table[i].cumulative_cashflow]
        yrs == [i \in 1..Len(cashflow_table) |-> cashflow_table[i].year]
    IN  IF cum[1] >= 0 THEN Some(yrs[1]) ELSE scan_from(cum, yrs, 1)

\* ------------------------------------------------- function for frontend

\* table.copy() with price_per_kwh rounded to 4 decimals, net_cashflow and
\* cumulative_cashflow to 2.
display_copy(table) ==
    [i \in 1..Len(table) |->
        [year |-> table[i].year,
         price_per_kwh |-> RoundOpt(table[i].price_per_kwh, 4),
         generation_kwh |-> table[i].generation_kwh,
         om_cost |-> table[i].om_cost,
         net_cashflow |-> Round(table[i].net_cashflow, 2),
         cumulative_cashflow |-> Round(table[i].cumulative_cashflow, 2)]]

\* What a call of run_solar_model leaves: the dict it returns (ret) and its
\* locals table and cashflows, the series handed to calc_project_irr.
Frame(table, cashflows, display_table, upfront, annual_gen, irr, payback) ==
    [table |-> table,
     cashflows |-> cashflows,
     ret |-> [cashflow_table |-> display_table,
              upfront_cost |-> upfront,
              annual_generation_kwh |-> annual_gen,
              irr |-> irr,
              payback_years |-> payback]]

\* An entry point that rounds first and derives both metrics from the
\* rounded table.
run_solar_model_round_first(df, state, system_size_kw, years) ==
    LET base_price == get_electricity_price(df, state)
        upfront == calc_upfront_capex(system_size_kw, CAPEX_PER_WATT)
        annual_gen == calc_annual_generation_kwh(system_size_kw, GEN_KWH_PER_KW_YEAR)
        built == build_cashflow_schedule(system_size_kw, base_price.val, years,
                     CAPEX_PER_WATT, ITC_RATE, GEN_KWH_PER_KW_YEAR,
                     PRICE_ESCALATION, OM_PER_KW_YEAR)
        display_table == display_copy(built.val.table)
        rounded_flows == [i \in 1..Len(display_table) |-> display_table[i].net_cashflow]
        irr == calc_project_irr(rounded_flows)
        payback == calc_payback_period_years(display_table)
    IN  IF ~base_price.ok THEN Raise(base_price.err)
        ELSE IF ~upfront.ok THEN Raise(upfront.err)
        ELSE IF ~annual_gen.ok THEN Raise(annual_gen.err)
        ELSE IF ~built.ok THEN Raise(built.err)
        ELSE Return(Frame(built.val.table, rounded_flows, display_table,
                          upfront.val, annual_gen.val, irr, payback))

run_solar_model(df, state, system_size_kw, years) ==
    LET base_price == get_electricity_price(df, state)
        upfront == calc_upfront_capex(system_size_kw, CAPEX_PER_WATT)
        annual_gen == calc_annual_generation_kwh(system_size_kw, GEN_KWH_PER_KW_YEAR)
        built == build_cashflow_schedule(system_size_kw, base_price.val, years,
                     CAPEX_PER_WATT, ITC_RATE, GEN_KWH_PER_KW_YEAR,
                     PRICE_ESCALATION, OM_PER_KW_YEAR)
        table == built.val.table
        cashflows == built.val.cashflows
        irr == calc_project_irr(cashflows)
        payback == calc_payback_period_years(table)
        display_table == display_copy(table)
    IN  IF ~base_price.ok THEN Raise(base_price.err)
        ELSE IF ~upfront.ok THEN Raise(upfront.err)
        ELSE IF ~annual_gen.ok THEN Raise(annual_gen.err)
        ELSE IF ~built.ok THEN Raise(built.err)
        ELSE Return(Frame(table, cashflows, display_table, upfront.val,
                          annual_gen.val, irr, payback))

\* ------------------------------------------------------------- inputs

\* The longest horizon a call is made with.
MaxYears == 26

\* The rows of energy_prices.csv ($/kWh): a duplicate key, a price below the
\* O&M cost per generated kWh, and a price of zero.
CsvRows ==
    << [state |-> "California", cost_per_kWh |-> 2480],
       [state |-> "Texas", cost_per_kWh |-> 2000],
       [state |-> "TEXAS", cost_per_kWh |-> 900],
       [state |-> "Ohio", cost_per_kWh |-> 100],
       [state |-> "Nowhere", cost_per_kWh |-> 0] >>

\* The files the module may be started on: each set of the required columns.
CsvFiles == {[columns |-> c, rows |-> CsvRows] : c \in SUBSET {"state", "cost_per_kWh"}}

\* The region names callers pass.
StateArgs == {"California", "CALIFORNIA", "texas", "Ohio", "Nowhere", "Atlantis"}

\* System sizes callers pass (kW): -0.1, 0, 0.001, 0.1, 10.
SizeArgs == {-1000, 0, 10, 1000, F(10)}

YearArgs == 0..MaxYears

\* Overrides of the assumptions passed to build_cashflow_schedule directly:
\* the defaults, values at and next to the edges of each valid range and a
\* value outside it (ITC rates 0.30, 0.9999, 1.0 and 1.5).
BasePriceArgs == {0, 100, 2000}

CapexPerWattArgs == {0, CAPEX_PER_WATT}

ItcRateArgs == {ITC_RATE, 9999, F(1), 15000}

GenArgs == {0, GEN_KWH_PER_KW_YEAR}

EscalationArgs == {-100, 0, PRICE_ESCALATION}

OmArgs == {-F(1), 0, OM_PER_KW_YEAR, F(500)}

BuildSizeArgs == {0, 1000, F(10)}

BuildYearArgs == {0, 1, 2, 3, PROJECT_YEARS, MaxYears}

\* --------------------------------------------------------- the program

VARIABLES
    csv,        \* the file energy_prices.csv
    module,     \* "unloaded", "imported" or "import_failed"
    df,         \* _ELECTRICITY_PRICE_DF once the module is imported
    call,       \* the call whose result the caller holds, NoCall between calls
    result,     \* what the last call returned or raised
    served      \* whether any call has obtained a price from the table

vars == <<csv, module, df, call, result, served>>

NoCall == [fn |-> "none"]

NoDf == [columns |-> {}, rows |-> <<>>]

Init ==
    /\ csv \in CsvFiles
    /\ module = "unloaded"
    /\ df = NoDf
    /\ call = NoCall
    /\ result = Raise("")
    /\ served = FALSE

\* import cfModel: the two module-level statements that load the table.
ImportModule ==
    /\ module = "unloaded"
    /\ LET loaded == load_price_table(csv)
       IN  \/ /\ loaded.ok
              /\ module' = "imported"
              /\ df' = loaded.val
              /\ result' = Return(<<>>)
           \/ /\ ~loaded.ok
              /\ module' = "import_failed"
              /\ df' = NoDf
              /\ result' = Raise(loaded.err)
    /\ call' = [fn |-> "import"]
    /\ UNCHANGED <<csv, served>>

CallGetElectricityPrice ==
    /\ module = "imported"
    /\ call.fn \in {"import", "none"}
    /\ \E state \in StateArgs :
          /\ call' = [fn |-> "get_electricity_price", state |-> state]
          /\ result' = get_electricity_price(df, state)
          /\ served' = (served \/ result'.ok)
    /\ UNCHANGED <<csv, module, df>>

CallBuildCashflowSchedule ==
    /\ module = "imported"
    /\ call.fn \in {"import", "none"}
    /\ \E system_size_kw \in BuildSizeArgs, base_price_per_kwh \in BasePriceArgs,
          years \in BuildYearArgs, capex_per_watt \in CapexPerWattArgs,
          itc_rate \in ItcRateArgs, gen_kwh_per_kw_year \in GenArgs,
          escalation \in EscalationArgs, om_per_kw_year \in OmArgs :
          /\ call' = [fn |-> "build_cashflow_schedule",
                      system_size_kw |-> system_size_kw,
                      base_price_per_kwh |-> base_price_per_kwh,
                      years |-> years,
                      capex_per_watt |-> capex_per_watt,
                      itc_rate |-> itc_rate,
                      gen_kwh_per_kw_year |-> gen_kwh_per_kw_year,
                      escalation |-> escalation,
                      om_per_kw_year |-> om_per_kw_year]
          /\ result' = build_cashflow_schedule(system_size_kw, base_price_per_kwh,
                           years, capex_per_watt, itc_rate, gen_kwh_per_kw_year,
                           escalation, om_per_kw_year)
    /\ UNCHANGED <<csv, module, df, served>>

CallRunSolarModel ==
    /\ module = "imported"
    /\ call.fn \in {"import", "none"}
    /\ \E state \in StateArgs, system_size_kw \in SizeArgs, years \in YearArgs :
          /\ call' = [fn |-> "run_solar_model", state |-> state,
                      system_size_kw |-> system_size_kw, years |-> years]
          /\ result' = run_solar_model(df, state, system_size_kw, years)
          /\ served' = (served \/ get_electricity_price(df, state).ok)
    /\ UNCHANGED <<csv, module, df>>

\* The caller hands the table it has just built to calc_payback_period_years.
CallCalcPaybackPeriodYears ==
    /\ module = "imported"
    /\ call.fn = "build_cashflow_schedule"
    /\ result.ok
    /\ call' = [fn |-> "calc_payback_period_years",
                cashflow_table |-> result.val.table]
    /\ result' = Return(calc_payback_period_years(result.val.table))
    /\ UNCHANGED <<csv, module, df, served>>

\* The caller is done with the result of its call; nothing of the call stays
\* behind but the price table.
DropResult ==
    /\ module = "imported"
    /\ call.fn \notin {"import", "none"}
    /\ call' = NoCall
    /\ result' = Return(<<>>)
    /\ UNCHANGED <<csv, module, df, served>>

Next ==
    \/ ImportModule
    \/ CallGetElectricityPrice
    \/ CallBuildCashflowSchedule
    \/ CallRunSolarModel
    \/ CallCalcPaybackPeriodYears
    \/ DropResult

Spec == Init /\ [][Next]_vars

\* ------------------------------------------------------------ claims

Required == {"state", "cost_per_kWh"}

BuildOk == call.fn = "build_cashflow_schedule" /\ result.ok

RunOk == call.fn = "run_solar_model" /\ result.ok

PaybackDone == call.fn = "calc_payback_period_years"

Cum(table) == [i \in 1..Len(table) |-> table[i].cumulative_cashflow]

Net(table) == [i \in 1..Len(table) |-> table[i].net_cashflow]

\* The first year whose value in the series is >= 0 (year t is element t + 1).
FirstCrossing(cum) ==
    IF \E i \in 1..Len(cum) : cum[i] >= 0
    THEN Some((CHOOSE i \in 1..Len(cum) :
                  cum[i] >= 0 /\ \A j \in 1..(i - 1) : cum[j] < 0) - 1)
    ELSE None

\* C1: run_solar_model with system size 0, a region of the price table and a
\* horizon > 0 raises and returns no result.
C1_ZeroSizeRejected ==
    ( /\ call.fn = "run_solar_model"
      /\ Required \subseteq csv.columns
      /\ call.system_size_kw = 0
      /\ call.years > 0
      /\ \E i \in 1..Len(df.rows) : df.rows[i].state = Lower(call.state) )
    => ~result.ok

\* C2: calc_payback_period_years returns the first crossing: at the returned
\* year Y the cumulative cash flow is >= 0, in every earlier year it is < 0,
\* and it returns None exactly when no row is >= 0.
C2_PaybackFirstCrossing ==
    PaybackDone =>
        LET cum == Cum(call.cashflow_table)
            r == result.val
        IN  /\ r # None =>
                  /\ r[1] \in 0..(Len(cum) - 1)
                  /\ cum[r[1] + 1] >= 0
                  /\ \A t \in 0..(r[1] - 1) : cum[t + 1] < 0
            /\ r = None <=> (\A i \in 1..Len(cum) : cum[i] < 0)

\* The scan passed rows below zero, one of them later than a row that is back
\* at or above the row before it, and returned a later year.
C2_Witness ==
    /\ PaybackDone
    /\ result.val # None
    /\ result.val[1] >= 3
    /\ Cum(call.cashflow_table)[2] < Cum(call.cashflow_table)[1]

\* C3: the cumulative column of a built schedule is the running sum of the
\* net column, starting from the year 0 net flow.
C3_CumulativeRunningSum ==
    BuildOk =>
        LET rows == result.val.table
        IN  /\ rows[1].cumulative_cashflow = rows[1].net_cashflow
            /\ \A t \in 2..Len(rows) :
                  rows[t].cumulative_cashflow =
                      rows[t - 1].cumulative_cashflow + rows[t].net_cashflow

C3_Witness ==
    /\ BuildOk
    /\ Len(result.val.table) >= 4
    /\ \A t \in 1..Len(result.val.table) : result.val.table[t].net_cashflow # 0

\* C4: run_solar_model derives payback and IRR from the unrounded schedule:
\* the payback year is the first year whose unrounded cumulative is >= 0, the
\* series given to the IRR is the unrounded net flows, and the rounding is
\* only in the returned copy.
C4_MetricsUnrounded ==
    RunOk =>
        LET table == result.val.table
            ret == result.val.ret
        IN  /\ ret.payback_years = FirstCrossing(Cum(table))
            /\ result.val.cashflows = Net(table)
            /\ ret.irr = calc_project_irr(Net(table))
            /\ Len(ret.cashflow_table) = Len(table)
            /\ \A i \in 1..Len(table) :
                  /\ ret.cashflow_table[i].cumulative_cashflow =
                         Round(table[i].cumulative_cashflow, 2)
                  /\ ret.cashflow_table[i].net_cashflow =
                         Round(table[i].net_cashflow, 2)

\* A run whose rounded table crosses zero in another year than the unrounded
\* one, and whose rounded net flows differ from the unrounded ones.
C4_Witness ==
    /\ RunOk
    /\ FirstCrossing(Cum(result.val.ret.cashflow_table))
           # FirstCrossing(Cum(result.val.table))
    /\ Net(result.val.ret.cashflow_table) # Net(result.val.table)

\* C5 as stated: in a schedule built from arguments that pass validation no
\* net flow of a year 1.. is negative.
C5_OnlyYearZeroNegative ==
    BuildOk =>
        \A t \in 2..Len(result.val.table) : result.val.table[t].net_cashflow >= 0

\* C5 amended: the year 0 net flow is never positive, and the net flow of a
\* year 1.. is not negative exactly when that row's gross savings (generation
\* times price) are at least its O&M cost.
C5_NetSign ==
    BuildOk =>
        LET rows == result.val.table
        IN  /\ rows[1].net_cashflow <= 0
            /\ \A t \in 2..Len(rows) :
                  rows[t].net_cashflow >= 0
                      <=> FMul(rows[t].generation_kwh, rows[t].price_per_kwh[1])
                              >= rows[t].om_cost

\* A valid schedule with a negative net flow in year 1 and a positive one later.
C5_Witness ==
    /\ BuildOk
    /\ Len(result.val.table) >= 3
    /\ result.val.table[2].net_cashflow < 0
    /\ \E t \in 3..Len(result.val.table) : result.val.table[t].net_cashflow > 0

\* C6: the schedule returned by run_solar_model has at most PROJECT_YEARS + 1
\* rows and ends at year min(requested horizon, PROJECT_YEARS).
C6_HorizonCapped ==
    RunOk =>
        LET t == result.val.ret.cashflow_table
            cap == IF call.years < PROJECT_YEARS THEN call.years ELSE PROJECT_YEARS
        IN  /\ Len(t) <= PROJECT_YEARS + 1
            /\ t[Len(t)].year = cap

\* C7: a built schedule has years + 1 rows for the years 0, 1, ..., years in
\* order, and the cash-flow series is the net column, year 0 first.
C7_ScheduleShape ==
    BuildOk =>
        LET rows == result.val.table
            cashflows == result.val.cashflows
        IN  /\ Len(rows) = call.years + 1
            /\ \A i \in 1..Len(rows) : rows[i].year = i - 1
            /\ Len(cashflows) = Len(rows)
            /\ \A i \in 1..Len(rows) : cashflows[i] = rows[i].net_cashflow

C7_Witness == BuildOk /\ call.years >= PROJECT_YEARS

C9_RowFormulas ==
    BuildOk =>
        LET rows == result.val.table
            capex == FMul(call.capex_per_watt, FMul(call.system_size_kw, F(1000)))
            gen == FMul(call.system_size_kw, call.gen_kwh_per_kw_year)
            om == FMul(call.system_size_kw, call.om_per_kw_year)
        IN  /\ rows[1].net_cashflow = (-capex) + FMul(capex, call.itc_rate)
            /\ rows[2].price_per_kwh = Some(call.base_price_per_kwh)
            /\ \A i \in 2..Len(rows) :
                  LET price == FMul(call.base_price_per_kwh,
                                    FPow(F(1) + call.escalation, i - 2))
                  IN  /\ rows[i].price_per_kwh = Some(price)
                      /\ rows[i].generation_kwh = gen
                      /\ rows[i].om_cost = om
                      /\ rows[i].net_cashflow = FMul(gen, price) - om
            /\ ( /\ call.system_size_kw = F(10)
                 /\ call.base_price_per_kwh = 2000
                 /\ call.years = PROJECT_YEARS
                 /\ call.capex_per_watt = CAPEX_PER_WATT
                 /\ call.itc_rate = ITC_RATE
                 /\ call.gen_kwh_per_kw_year = GEN_KWH_PER_KW_YEAR
                 /\ call.escalation = PRICE_ESCALATION
                 /\ call.om_per_kw_year = OM_PER_KW_YEAR )
               => /\ rows[1].net_cashflow = -F(17500)
                  /\ rows[2].generation_kwh = F(14000)
                  /\ rows[2].net_cashflow = F(2650)
                  /\ rows[2].cumulative_cashflow = -F(14850)

\* The schedule of the end-to-end example.
C9_Witness ==
    /\ BuildOk
    /\ call.system_size_kw = F(10)
    /\ call.base_price_per_kwh = 2000
    /\ call.years = PROJECT_YEARS
    /\ call.capex_per_watt = CAPEX_PER_WATT
    /\ call.itc_rate = ITC_RATE
    /\ call.gen_kwh_per_kw_year = GEN_KWH_PER_KW_YEAR
    /\ call.escalation = PRICE_ESCALATION
    /\ call.om_per_kw_year = OM_PER_KW_YEAR
    /\ result.val.table[3].price_per_kwh = Some(2050)

\* C10 as stated: from the payback year on the cumulative cash flow of a
\* built schedule is never below zero.
C10_PaybackPermanent ==
    (PaybackDone /\ result.val # None) =>
        \A i \in (result.val[1] + 1)..Len(call.cashflow_table) :
            call.cashflow_table[i].cumulative_cashflow >= 0

\* C10 amended: the cumulative cash flow stays >= 0 from the payback year on
\* when that year is 1 or later, or when it is 0 and the net flow of year 1
\* is not negative.
C10_PaybackPermanentAfterYearZero ==
    ( /\ PaybackDone
      /\ result.val # None
      /\ \/ result.val[1] >= 1
         \/ call.cashflow_table[2].net_cashflow >= 0 ) =>
        \A i \in (result.val[1] + 1)..Len(call.cashflow_table) :
            call.cashflow_table[i].cumulative_cashflow >= 0

\* Payback in a year 1.. with years left after it, reached after a year of
\* negative net flow.
C10_Witness ==
    /\ PaybackDone
    /\ result.val # None
    /\ result.val[1] >= 1
    /\ result.val[1] + 1 < Len(call.cashflow_table)
    /\ call.cashflow_table[2].net_cashflow < 0

====
